---- MODULE Spec2Model ----
(***************************************************************************)
(* Model of the Greip Go client library (greip.go, helpers.go, types.go):  *)
(* the validators, the ten endpoint methods, the GET/POST request          *)
(* executors and the response-envelope handling.                           *)
(*                                                                         *)
(* Strings that the code transforms character by character (language      *)
(* codes, the envelope's status) are sequences of one-character strings;   *)
(* all other strings are atomic, "" being the empty string.                *)
(* A Go slice or map is a record [nil, elems]: nil and empty are distinct. *)
(***************************************************************************)
EXTENDS Integers, Sequences, FiniteSets, TLC

\* TLC orders the fields of a record by the first occurrence of their names
\* in the module.  All field names occur here first, in alphabetical order,
\* and every record below lists its fields in that order, so that a record
\* is in canonical form as it is built.
FieldNames ==
    [AsnLookup |-> 1, BaseURL |-> 2, BulkLookup |-> 3, Country |-> 4,
     CountryCode |-> 5, Email |-> 6, IBAN |-> 7, Lookup |-> 8, Payment |-> 9,
     Phone |-> 10, Profanity |-> 11, StatusCode |-> 12, Threats |-> 13,
     amount |-> 14, apiToken |-> 15, args |-> 16, asn |-> 17,
     availableParams |-> 18, body |-> 19, countryCode |-> 20,
     countryName |-> 21, data |-> 22, description |-> 23, done |-> 24,
     elems |-> 25, email |-> 26, endpoint |-> 27, err |-> 28, f |-> 29,
     fields |-> 30, header |-> 31, iban |-> 32, ip |-> 33, ipType |-> 34,
     ips |-> 35, kind |-> 36, lang |-> 37, method |-> 38, mode |-> 39,
     name |-> 40, nil |-> 41, ok |-> 42, op |-> 43, panic |-> 44,
     params |-> 45, payload |-> 46, pc |-> 47, phone |-> 48,
     population |-> 49, query |-> 50, req |-> 51, resp |-> 52, result |-> 53,
     riskScore |-> 54, score |-> 55, sent |-> 56, shape |-> 57,
     status |-> 58, test |-> 59, text |-> 60, token |-> 61, url |-> 62,
     val |-> 63]

VARIABLES g, ctor, calls, pin, pout

vars == <<g, ctor, calls, pin, pout>>

\* ---------------------------------------------------------------- bounds
MaxParams  == 2
MaxLangLen == 2

\* --------------------------------------------------------------- strings
LowerLetters == <<"a","b","c","d","e","f","g","h","i","j","k","l","m",
                  "n","o","p","q","r","s","t","u","v","w","x","y","z">>
UpperLetters == <<"A","B","C","D","E","F","G","H","I","J","K","L","M",
                  "N","O","P","Q","R","S","T","U","V","W","X","Y","Z">>

IndexOf(seq, c) == CHOOSE i \in 1..Len(seq) : seq[i] = c
IsIn(seq, c)    == \E i \in 1..Len(seq) : seq[i] = c

\* unicode.ToUpper of one character; LONG_S is U+017F and DOTLESS_I is
\* U+0131, the two non-ASCII characters whose upper case is an ASCII letter.
UpperChar(c) ==
    IF IsIn(LowerLetters, c) THEN UpperLetters[IndexOf(LowerLetters, c)]
    ELSE IF c = "LONG_S" THEN "S"
    ELSE IF c = "DOTLESS_I" THEN "I"
    ELSE c

\* unicode.ToLower of one character; KELVIN is U+212A, whose lower case is k.
LowerChar(c) ==
    IF IsIn(UpperLetters, c) THEN LowerLetters[IndexOf(UpperLetters, c)]
    ELSE IF c = "KELVIN" THEN "k"
    ELSE c

ToUpper(s) == [i \in 1..Len(s) |-> UpperChar(s[i])]
ToLower(s) == [i \in 1..Len(s) |-> LowerChar(s[i])]

\* ---------------------------------------------------------------- slices
NilSlice      == [elems |-> <<>>, nil |-> TRUE]
Slice(elems)  == [elems |-> elems, nil |-> FALSE]

\* ---------------------------------------------------------------- errors
NoError                == [kind |-> "nil", val |-> ""]
MissingParameter(p)    == [kind |-> "MissingParameter", val |-> p]
InvalidParameter(p)    == [kind |-> "InvalidParameter", val |-> p]
InvalidLanguage(lang)  == [kind |-> "InvalidLanguage", val |-> lang]

\* ------------------------------------------------------------ validators
availableGeoIPParams   == <<"location", "security", "timezone", "currency", "device">>
availableCountryParams == <<"language", "flag", "currency", "timezone">>

allowedLangs == << <<"E","N">>, <<"A","R">>, <<"D","E">>, <<"F","R">>,
                   <<"E","S">>, <<"J","A">>, <<"Z","H">>, <<"R","U">> >>

contains(slice, item) == \E i \in 1..Len(slice) : slice[i] = item

\* validateParams reporting the last offending element instead of the first
validateParamsLast(params, availableParams) ==
    IF \E i \in 1..Len(params.elems) : ~contains(availableParams, params.elems[i])
    THEN LET last == CHOOSE i \in 1..Len(params.elems) :
                        /\ ~contains(availableParams, params.elems[i])
                        /\ \A j \in (i+1)..Len(params.elems) :
                              contains(availableParams, params.elems[j])
         IN  InvalidParameter(params.elems[last])
    ELSE NoError

validateParams(params, availableParams) ==
    IF \E i \in 1..Len(params.elems) : ~contains(availableParams, params.elems[i])
    THEN LET first == CHOOSE i \in 1..Len(params.elems) :
                        /\ ~contains(availableParams, params.elems[i])
                        /\ \A j \in 1..(i-1) : contains(availableParams, params.elems[j])
         IN  InvalidParameter(params.elems[first])
    ELSE NoError

\* validateLang comparing the code as given, without strings.ToUpper
validateLangExact(lang) ==
    IF ~contains(allowedLangs, lang) THEN InvalidLanguage(lang) ELSE NoError

validateLang(lang) ==
    IF ~contains(allowedLangs, ToUpper(lang)) THEN InvalidLanguage(lang) ELSE NoError

\* ------------------------------------------------------------ the handle
baseUrl == "https://greipapi.com/"

NewGreip(apiToken, test) ==
    LET testValue == IF Len(test) > 0 THEN test[1] ELSE FALSE
    IN  [BaseURL |-> baseUrl, test |-> testValue, token |-> apiToken]

\* ------------------------------------------------------------ JSON values
Absent     == [kind |-> "absent", val |-> 0]
JNull      == [kind |-> "null",   val |-> 0]
JStr(s)    == [kind |-> "string", val |-> s]
JNum(n)    == [kind |-> "number", val |-> n]
JObj(o)    == [kind |-> "object", val |-> o]

\* ---------------------------------------------------------- more errors
URLError           == [kind |-> "URLError", val |-> ""]
TransportError     == [kind |-> "TransportError", val |-> ""]
HTTPStatusError(n) == [kind |-> "HTTPStatus", val |-> n]
DecodeError        == [kind |-> "DecodeError", val |-> ""]
APIError(d)        == [kind |-> "APIError", val |-> d]
MissingDataField   == [kind |-> "MissingDataField", val |-> ""]
UnmarshalTypeError == [kind |-> "UnmarshalTypeError", val |-> ""]

IsValidationError(e) ==
    e.kind \in {"MissingParameter", "InvalidParameter", "InvalidLanguage"}

\* strings.Join
RECURSIVE Join(_, _)
Join(elems, sep) ==
    IF Len(elems) = 0 THEN ""
    ELSE IF Len(elems) = 1 THEN elems[1]
    ELSE elems[1] \o sep \o Join(Tail(elems), sep)

\* ------------------------------------------------- typed results (types.go)
\* A target shape lists the JSON keys of the fields the model follows and
\* their Go types; the responses below only ever carry these keys.
Struct(fields) == [fields |-> fields, kind |-> "struct"]
MapOf(fields)  == [fields |-> fields, kind |-> "map"]

ResponseLookup    == Struct([ip |-> "string", ipType |-> "string"])
ResponseThreats   == Struct([ip |-> "string"])
ResponseBulk      == MapOf(ResponseLookup.fields)
ResponseCountry   == Struct([countryName |-> "string", population |-> "number"])
ResponseProfanity == Struct([riskScore |-> "number", text |-> "string"])
ResponseASN       == Struct([asn |-> "string", name |-> "string"])
ResponseEmail     == Struct([email |-> "string", score |-> "number"])
ResponsePhone     == Struct([countryCode |-> "string", phone |-> "string"])
ResponseIBAN      == Struct([iban |-> "string"])
ResponsePayment   == Struct([score |-> "number"])

ZeroOf(type) == IF type = "string" THEN JStr("").val ELSE JNum(0).val

ZeroStruct(fields) == [f \in DOMAIN fields |-> ZeroOf(fields[f])]

ZeroValue(shape) ==
    IF shape.kind = "struct" THEN ZeroStruct(shape.fields) ELSE <<>>


DecodeStructKeepsZero(j, fields) ==
    IF j.kind = "null" THEN [ok |-> TRUE, val |-> ZeroStruct(fields)]
    ELSE IF j.kind # "object" THEN [ok |-> FALSE, val |-> ZeroStruct(fields)]
    ELSE LET o == j.val
         IN  [ok  |-> \A f \in DOMAIN fields :
                         f \in DOMAIN o => o[f].kind \in {fields[f], "null"},
              val |-> ZeroStruct(fields)]

\* encoding/json decoding of one JSON value into a struct: null is a no-op,
\* unknown keys are skipped, a value of the wrong JSON type leaves the field
\* at its zero value and makes the whole decode fail after the other fields
\* have been filled.
DecodeStruct(j, fields) ==
    IF j.kind = "null" THEN [ok |-> TRUE, val |-> ZeroStruct(fields)]
    ELSE IF j.kind # "object" THEN [ok |-> FALSE, val |-> ZeroStruct(fields)]
    ELSE LET o == j.val
         IN  [ok  |-> \A f \in DOMAIN fields :
                         f \in DOMAIN o => o[f].kind \in {fields[f], "null"},
              val |-> [f \in DOMAIN fields |->
                         IF f \in DOMAIN o /\ o[f].kind = fields[f]
                         THEN o[f].val ELSE ZeroOf(fields[f])]]

\* json.Marshal(data) followed by json.Unmarshal(dataBytes, responseType)
Unmarshal(data, shape) ==
    IF shape.kind = "struct"
    THEN LET d == DecodeStruct(data, shape.fields)
         IN  [err |-> IF d.ok THEN NoError ELSE UnmarshalTypeError, val |-> d.val]
    ELSE IF data.kind = "null" THEN [err |-> NoError, val |-> <<>>]
    ELSE IF data.kind # "object" THEN [err |-> UnmarshalTypeError, val |-> <<>>]
    ELSE LET o == data.val
         IN  [err |-> IF \A k \in DOMAIN o : DecodeStruct(o[k], shape.fields).ok
                      THEN NoError ELSE UnmarshalTypeError,
              val |-> [k \in DOMAIN o |-> DecodeStruct(o[k], shape.fields).val]]

\* ------------------------------------------------------ request executors
NoRequest  == [method |-> "none"]
NoResponse == [kind |-> "none"]

\* base URLs on which url.Parse (called by http.NewRequest) fails
UnparsableBaseURLs == {":bad/"}


HeadersBareToken(token) ==
    [k \in {"Authorization", "Content-Type"} |->
        IF k = "Authorization" THEN token ELSE "application/json"]

Headers(token) ==
    [k \in {"Authorization", "Content-Type"} |->
        IF k = "Authorization" THEN "Bearer " \o token ELSE "application/json"]

\* payload[key] = value on a Go map
MapSet(m, key, value) ==
    [k \in DOMAIN m \cup {key} |-> IF k = key THEN value ELSE m[k]]


getRequestSendNoMode(h, endpoint, payload) ==
    LET urlEndpoint == h.BaseURL \o endpoint
        query == [k \in DOMAIN payload |-> payload[k]]
    IN  IF h.BaseURL \in UnparsableBaseURLs
        THEN [err |-> URLError, payload |-> payload, req |-> NoRequest]
        ELSE [err |-> NoError, payload |-> payload,
              req |-> [body |-> Absent, header |-> Headers(h.token),
                       method |-> "GET", query |-> query, url |-> urlEndpoint]]

\* getRequest up to and including client.Do(req): the request that is sent,
\* or the error returned before anything is sent.
getRequestSend(h, endpoint, payload) ==
    LET urlEndpoint == h.BaseURL \o endpoint
        p     == IF h.test THEN MapSet(payload, "mode", "test") ELSE payload
        query == [k \in DOMAIN p |-> p[k]]
    IN  IF h.BaseURL \in UnparsableBaseURLs
        THEN [err |-> URLError, payload |-> payload, req |-> NoRequest]
        ELSE [err |-> NoError, payload |-> p,
              req |-> [body |-> Absent, header |-> Headers(h.token),
                       method |-> "GET", query |-> query, url |-> urlEndpoint]]


\* (variant) postRequest writing the marker into the map under "data"
postRequestSendModeInData(h, endpoint, payload) ==
    LET urlEndpoint == h.BaseURL \o endpoint
        p == IF h.test /\ "data" \in DOMAIN payload
             THEN MapSet(payload, "data",
                         JObj(MapSet(payload["data"].val, "mode", "test")))
             ELSE payload
    IN  IF h.BaseURL \in UnparsableBaseURLs
        THEN [err |-> URLError, payload |-> payload, req |-> NoRequest]
        ELSE [err |-> NoError, payload |-> p,
              req |-> [body |-> JObj(p), header |-> Headers(h.token),
                       method |-> "POST", query |-> <<>>, url |-> urlEndpoint]]

\* postRequest up to and including client.Do(req); payload is the payload
\* map after the executor's writes: a Go map is a reference, so the writes
\* are seen by whoever holds the map
postRequestSend(h, endpoint, payload) ==
    LET urlEndpoint == h.BaseURL \o endpoint
        p == IF h.test THEN MapSet(payload, "mode", "test") ELSE payload
    IN  IF h.BaseURL \in UnparsableBaseURLs
        THEN [err |-> URLError, payload |-> payload, req |-> NoRequest]
        ELSE [err |-> NoError, payload |-> p,
              req |-> [body |-> JObj(p), header |-> Headers(h.token),
                       method |-> "POST", query |-> <<>>, url |-> urlEndpoint]]

EmptyEnvelope == [data |-> Absent, description |-> Absent, status |-> Absent]

\* json.NewDecoder(resp.Body).Decode(&jsonResponse) into a map: a body that
\* is not JSON, or JSON that is not an object, is an error; the JSON value
\* null leaves the map nil, which reads like an empty object.
DecodeBody(body) ==
    IF body.kind = "object" THEN [err |-> NoError, val |-> body.val]
    ELSE IF body.kind = "null" THEN [err |-> NoError, val |-> EmptyEnvelope]
    ELSE [err |-> DecodeError, val |-> EmptyEnvelope]

Outcome(err, val) == [err |-> err, panic |-> FALSE, val |-> val]
Panic(shape)      == [err |-> NoError, panic |-> TRUE, val |-> ZeroValue(shape)]

\* getRequest comparing the status with "error" without strings.ToLower
getRequestReceiveCaseSensitive(resp, shape) ==
    IF resp.kind = "failure" THEN Outcome(TransportError, ZeroValue(shape))
    ELSE IF resp.StatusCode < 200 \/ resp.StatusCode >= 300
    THEN Outcome(HTTPStatusError(resp.StatusCode), ZeroValue(shape))
    ELSE LET dec == DecodeBody(resp.body)
             jsonResponse == dec.val
         IN  IF dec.err.kind # "nil" THEN Outcome(dec.err, ZeroValue(shape))
             ELSE IF /\ jsonResponse.status.kind = "string"
                     /\ jsonResponse.status.val = <<"e","r","r","o","r">>
             THEN IF jsonResponse.description.kind = "string"
                  THEN Outcome(APIError(jsonResponse.description.val), ZeroValue(shape))
                  ELSE Panic(shape)
             ELSE IF jsonResponse.data.kind # "absent"
             THEN LET u == Unmarshal(jsonResponse.data, shape)
                  IN  Outcome(u.err, u.val)
             ELSE Outcome(MissingDataField, ZeroValue(shape))

\* getRequest decoding the body before it looks at the status code
getRequestReceiveBodyFirst(resp, shape) ==
    IF resp.kind = "failure" THEN Outcome(TransportError, ZeroValue(shape))
    ELSE LET dec == DecodeBody(resp.body)
             jsonResponse == dec.val
         IN  IF dec.err.kind # "nil" THEN Outcome(dec.err, ZeroValue(shape))
             ELSE IF resp.StatusCode < 200 \/ resp.StatusCode >= 300
             THEN Outcome(HTTPStatusError(resp.StatusCode), ZeroValue(shape))
             ELSE IF /\ jsonResponse.status.kind = "string"
                     /\ ToLower(jsonResponse.status.val) = <<"e","r","r","o","r">>
             THEN IF jsonResponse.description.kind = "string"
                  THEN Outcome(APIError(jsonResponse.description.val), ZeroValue(shape))
                  ELSE Panic(shape)
             ELSE IF jsonResponse.data.kind # "absent"
             THEN LET u == Unmarshal(jsonResponse.data, shape)
                  IN  Outcome(u.err, u.val)
             ELSE Outcome(MissingDataField, ZeroValue(shape))


\* (variant) getRequest testing data for non-null instead of key presence
getRequestReceiveNonNullData(resp, shape) ==
    IF resp.kind = "failure" THEN Outcome(TransportError, ZeroValue(shape))
    ELSE IF resp.StatusCode < 200 \/ resp.StatusCode >= 300
    THEN Outcome(HTTPStatusError(resp.StatusCode), ZeroValue(shape))
    ELSE LET dec == DecodeBody(resp.body)
             jsonResponse == dec.val
         IN  IF dec.err.kind # "nil" THEN Outcome(dec.err, ZeroValue(shape))
             ELSE IF /\ jsonResponse.status.kind = "string"
                     /\ ToLower(jsonResponse.status.val) = <<"e","r","r","o","r">>
             THEN IF jsonResponse.description.kind = "string"
                  THEN Outcome(APIError(jsonResponse.description.val), ZeroValue(shape))
                  ELSE Panic(shape)
             ELSE IF jsonResponse.data.kind \notin {"absent", "null"}
             THEN LET u == Unmarshal(jsonResponse.data, shape)
                  IN  Outcome(u.err, u.val)
             ELSE Outcome(MissingDataField, ZeroValue(shape))

\* getRequest from the return of client.Do(req) to its own return
getRequestReceive(resp, shape) ==
    IF resp.kind = "failure" THEN Outcome(TransportError, ZeroValue(shape))
    ELSE IF resp.StatusCode < 200 \/ resp.StatusCode >= 300
    THEN Outcome(HTTPStatusError(resp.StatusCode), ZeroValue(shape))
    ELSE LET dec == DecodeBody(resp.body)
             jsonResponse == dec.val
         IN  IF dec.err.kind # "nil" THEN Outcome(dec.err, ZeroValue(shape))
             ELSE IF /\ jsonResponse.status.kind = "string"
                     /\ ToLower(jsonResponse.status.val) = <<"e","r","r","o","r">>
             THEN IF jsonResponse.description.kind = "string"
                  THEN Outcome(APIError(jsonResponse.description.val), ZeroValue(shape))
                  ELSE Panic(shape)
             ELSE IF jsonResponse.data.kind # "absent"
             THEN LET u == Unmarshal(jsonResponse.data, shape)
                  IN  Outcome(u.err, u.val)
             ELSE Outcome(MissingDataField, ZeroValue(shape))

\* postRequest accepting an envelope without a data field as an empty result
postRequestReceiveNoData(resp, shape) ==
    IF resp.kind = "failure" THEN Outcome(TransportError, ZeroValue(shape))
    ELSE IF resp.StatusCode < 200 \/ resp.StatusCode >= 300
    THEN Outcome(HTTPStatusError(resp.StatusCode), ZeroValue(shape))
    ELSE LET dec == DecodeBody(resp.body)
             jsonResponse == dec.val
         IN  IF dec.err.kind # "nil" THEN Outcome(dec.err, ZeroValue(shape))
             ELSE IF /\ jsonResponse.status.kind = "string"
                     /\ ToLower(jsonResponse.status.val) = <<"e","r","r","o","r">>
             THEN IF jsonResponse.description.kind = "string"
                  THEN Outcome(APIError(jsonResponse.description.val), ZeroValue(shape))
                  ELSE Panic(shape)
             ELSE IF jsonResponse.data.kind # "absent"
             THEN LET u == Unmarshal(jsonResponse.data, shape)
                  IN  Outcome(u.err, u.val)
             ELSE Outcome(NoError, ZeroValue(shape))

\* postRequest from the return of client.Do(req) to its own return
postRequestReceive(resp, shape) ==
    IF resp.kind = "failure" THEN Outcome(TransportError, ZeroValue(shape))
    ELSE IF resp.StatusCode < 200 \/ resp.StatusCode >= 300
    THEN Outcome(HTTPStatusError(resp.StatusCode), ZeroValue(shape))
    ELSE LET dec == DecodeBody(resp.body)
             jsonResponse == dec.val
         IN  IF dec.err.kind # "nil" THEN Outcome(dec.err, ZeroValue(shape))
             ELSE IF /\ jsonResponse.status.kind = "string"
                     /\ ToLower(jsonResponse.status.val) = <<"e","r","r","o","r">>
             THEN IF jsonResponse.description.kind = "string"
                  THEN Outcome(APIError(jsonResponse.description.val), ZeroValue(shape))
                  ELSE Panic(shape)
             ELSE IF jsonResponse.data.kind # "absent"
             THEN LET u == Unmarshal(jsonResponse.data, shape)
                  IN  Outcome(u.err, u.val)
             ELSE Outcome(MissingDataField, ZeroValue(shape))

\* -------------------------------------------------------- endpoint methods
\* Each method up to its call of the executor: the validation error it
\* returns, or the endpoint, payload and target type it hands to the executor.
Plan(err, method, endpoint, payload, shape) ==
    [endpoint |-> endpoint, err |-> err, method |-> method,
     payload |-> payload, shape |-> shape]

DefaultLang == <<"E","N">>


\* (variant) Lookup checking the language before the params
LookupLangFirst(ip, params0, lang) ==
    LET params    == IF params0.nil THEN Slice(<<>>) ELSE params0
        langValue == IF Len(lang) > 0 THEN lang[1] ELSE DefaultLang
        payload   == [ip |-> ip, lang |-> ToUpper(langValue),
                      params |-> Join(params.elems, ",")]
        err == IF ip = "" THEN MissingParameter("ip")
               ELSE IF validateLang(langValue).kind # "nil"
               THEN validateLang(langValue)
               ELSE validateParams(params, availableGeoIPParams)
    IN  Plan(err, "GET", "IPLookup", payload, ResponseLookup)

Lookup(ip, params0, lang) ==
    LET params    == IF params0.nil THEN Slice(<<>>) ELSE params0
        langValue == IF Len(lang) > 0 THEN lang[1] ELSE DefaultLang
        payload   == [ip |-> ip, lang |-> ToUpper(langValue),
                      params |-> Join(params.elems, ",")]
        err == IF ip = "" THEN MissingParameter("ip")
               ELSE IF validateParams(params, availableGeoIPParams).kind # "nil"
               THEN validateParams(params, availableGeoIPParams)
               ELSE validateLang(langValue)
    IN  Plan(err, "GET", "IPLookup", payload, ResponseLookup)


\* (variant) Threats calling the endpoint of Lookup
ThreatsLookupEndpoint(ip) ==
    Plan(IF ip = "" THEN MissingParameter("ip") ELSE NoError,
         "GET", "IPLookup", [ip |-> ip], ResponseThreats)

Threats(ip) ==
    Plan(IF ip = "" THEN MissingParameter("ip") ELSE NoError,
         "GET", "threats", [ip |-> ip], ResponseThreats)


\* (variant) BulkLookup sending the language code as given
BulkLookupLangAsGiven(ips, params0, lang) ==
    LET params    == IF params0.nil THEN Slice(<<>>) ELSE params0
        langValue == IF Len(lang) > 0 THEN lang[1] ELSE DefaultLang
        payload   == [ips |-> Join(ips.elems, ","), lang |-> langValue,
                      params |-> Join(params.elems, ",")]
        err == IF ips.nil THEN MissingParameter("ips")
               ELSE IF validateParams(params, availableGeoIPParams).kind # "nil"
               THEN validateParams(params, availableGeoIPParams)
               ELSE validateLang(langValue)
    IN  Plan(err, "GET", "BulkLookup", payload, ResponseBulk)

BulkLookup(ips, params0, lang) ==
    LET params    == IF params0.nil THEN Slice(<<>>) ELSE params0
        langValue == IF Len(lang) > 0 THEN lang[1] ELSE DefaultLang
        payload   == [ips |-> Join(ips.elems, ","), lang |-> ToUpper(langValue),
                      params |-> Join(params.elems, ",")]
        err == IF ips.nil THEN MissingParameter("ips")
               ELSE IF validateParams(params, availableGeoIPParams).kind # "nil"
               THEN validateParams(params, availableGeoIPParams)
               ELSE validateLang(langValue)
    IN  Plan(err, "GET", "BulkLookup", payload, ResponseBulk)


\* (variant) Country checking params against the GeoIP list
CountryGeoIPList(countryCode, params0, lang) ==
    LET params    == IF params0.nil THEN Slice(<<>>) ELSE params0
        langValue == IF Len(lang) > 0 THEN lang[1] ELSE DefaultLang
        payload   == [CountryCode |-> countryCode, lang |-> ToUpper(langValue),
                      params |-> Join(params.elems, ",")]
        err == IF countryCode = "" THEN MissingParameter("countryCode")
               ELSE IF validateParams(params, availableGeoIPParams).kind # "nil"
               THEN validateParams(params, availableGeoIPParams)
               ELSE validateLang(langValue)
    IN  Plan(err, "GET", "Country", payload, ResponseCountry)

Country(countryCode, params0, lang) ==
    LET params    == IF params0.nil THEN Slice(<<>>) ELSE params0
        langValue == IF Len(lang) > 0 THEN lang[1] ELSE DefaultLang
        payload   == [CountryCode |-> countryCode, lang |-> ToUpper(langValue),
                      params |-> Join(params.elems, ",")]
        err == IF countryCode = "" THEN MissingParameter("countryCode")
               ELSE IF validateParams(params, availableCountryParams).kind # "nil"
               THEN validateParams(params, availableCountryParams)
               ELSE validateLang(langValue)
    IN  Plan(err, "GET", "Country", payload, ResponseCountry)

Profanity(text) ==
    Plan(IF text = "" THEN MissingParameter("text") ELSE NoError,
         "GET", "badWords", [text |-> text], ResponseProfanity)

AsnLookup(asn) ==
    Plan(IF asn = "" THEN MissingParameter("asn") ELSE NoError,
         "GET", "ASNLookup", [asn |-> asn], ResponseASN)

Email(email) ==
    Plan(IF email = "" THEN MissingParameter("email") ELSE NoError,
         "GET", "validateEmail", [email |-> email], ResponseEmail)

\* Phone without the check of countryCode
PhoneNoCountryCheck(phone, countryCode) ==
    Plan(IF phone = "" THEN MissingParameter("phone") ELSE NoError,
         "GET", "validatePhone", [countryCode |-> countryCode, phone |-> phone],
         ResponsePhone)

Phone(phone, countryCode) ==
    Plan(IF phone = "" THEN MissingParameter("phone")
         ELSE IF countryCode = "" THEN MissingParameter("countryCode")
         ELSE NoError,
         "GET", "validatePhone", [countryCode |-> countryCode, phone |-> phone],
         ResponsePhone)

IBAN(iban) ==
    Plan(IF iban = "" THEN MissingParameter("iban") ELSE NoError,
         "GET", "validateIBAN", [iban |-> iban], ResponseIBAN)

Payment(data) ==
    Plan(IF data.nil THEN MissingParameter("data") ELSE NoError,
         "POST", "paymentFraud", [data |-> JObj(data.elems)], ResponsePayment)

\* the tail of every method: (nil, err) on an error, (&response, nil) otherwise
MethodReturn(out) ==
    IF out.err.kind # "nil" THEN [nil |-> TRUE, val |-> <<>>]
    ELSE [nil |-> FALSE, val |-> out.val]

\* ------------------------------------------------------------------ inputs
\* Spec drives one caller over the full input sets; SpecConcurrent drives
\* both callers over the small ones.
Callers == {"c1", "c2"}
MainCallers == {"c1"}
Tokens  == {"tok", "tok2"}
TestArgs == {<<>>, <<TRUE>>, <<FALSE>>}
BaseURLs == {baseUrl, "http://127.0.0.1:8080/"} \cup UnparsableBaseURLs

StringInputs == {"", "x"}
ParamInputs  == {NilSlice, Slice(<<>>), Slice(<<"location">>), Slice(<<"flag">>),
                 Slice(<<"currency", "bogus">>)}
LangInputs   == {<<>>, << <<"e","n">> >>, << <<"I","T">> >>,
                 << <<"F","r">>, <<"x","x">> >>}
IpsInputs    == {NilSlice, Slice(<<>>), Slice(<<"1.1.1.1">>),
                 Slice(<<"1.1.1.1", "8.8.8.8">>)}
NilMap       == [elems |-> <<>>, nil |-> TRUE]
Map(elems)   == [elems |-> elems, nil |-> FALSE]
DataInputs   == {NilMap, Map(<<>>), Map([amount |-> "10"]), Map([mode |-> "live"])}

\* what the transport can hand back for one request
StatusCodes    == {101, 200, 299, 300, 500}
StatusValues   == {Absent, JNum(1), JStr(<<"e","r","r","o","r">>),
                   JStr(<<"E","r","r","o","r">>), JStr(<<"E","R","R","O","R">>),
                   JStr(<<"e","r","r","o","r","s">>),
                   JStr(<<"s","u","c","c","e","s","s">>)}
DescriptionValues == {Absent, JNum(7), JStr("bad token")}
DataValues     == {Absent, JNull, JStr("x"),
                   JObj([ip |-> JStr("1.1.1.1"), ipType |-> JStr("v4")]),
                   JObj([ip |-> JStr("1.1.1.1"), ipType |-> JNum(4)]),
                   JObj([ip |-> JObj([ip |-> JStr("1.1.1.1"), score |-> JNum(3)])])}
Envelopes      == [data : DataValues, description : DescriptionValues,
                   status : StatusValues]
Bodies         == {[kind |-> "garbage", val |-> EmptyEnvelope],
                   [kind |-> "null", val |-> EmptyEnvelope]}
                  \cup {[kind |-> "object", val |-> e] : e \in Envelopes}
Responses      == {[StatusCode |-> 0,
                    body |-> [kind |-> "garbage", val |-> EmptyEnvelope],
                    kind |-> "failure"]}
                  \cup [StatusCode : StatusCodes, body : Bodies, kind : {"http"}]

\* ------------------------------------------------------------------- state
Idle == [args |-> <<>>, err |-> NoError, op |-> "none", payload |-> <<>>,
         pc |-> "idle", req |-> NoRequest, resp |-> NoResponse,
         result |-> [nil |-> TRUE, val |-> <<>>], sent |-> 0,
         shape |-> Struct(<<>>)]

NoInput  == [f |-> "none"]
NoOutput == [done |-> FALSE, err |-> NoError]

\* ctor keeps the arguments the handle was constructed with
Init ==
    /\ \E t \in Tokens, a \in TestArgs :
         /\ ctor = [apiToken |-> t, test |-> a]
         /\ g = NewGreip(t, a)
    /\ calls = [c \in Callers |-> Idle]
    /\ pin = NoInput
    /\ pout = NoOutput

\* a method that hands its payload to the executor before it validates
InvokeSendFirst(c, op, args, plan) ==
    LET b == IF plan.method = "GET"
             THEN getRequestSend(g, plan.endpoint, plan.payload)
             ELSE postRequestSend(g, plan.endpoint, plan.payload)
    IN  /\ calls[c].pc = "idle"
        /\ calls' = [calls EXCEPT ![c] =
              IF b.err.kind # "nil"
              THEN [Idle EXCEPT !.pc = "returned", !.op = op, !.args = args,
                                !.shape = plan.shape, !.err = b.err]
              ELSE IF plan.err.kind # "nil"
              THEN [Idle EXCEPT !.pc = "returned", !.op = op, !.args = args,
                                !.shape = plan.shape, !.sent = 1, !.req = b.req,
                                !.payload = b.payload,
                                !.err = plan.err]
              ELSE [Idle EXCEPT !.pc = "waiting", !.op = op, !.args = args,
                                !.shape = plan.shape, !.sent = 1, !.req = b.req,
                                !.payload = b.payload]]
        /\ UNCHANGED <<g, ctor, pin, pout>>


\* (variant) the payload map is kept across calls instead of being built per
\* call: the keys another call in flight has written are still in it
InvokeSharedPayload(c, op, args, plan) ==
    LET inFlight == {d \in Callers \ {c} :
                        calls[d].pc = "waiting" /\ calls[d].req.method = "GET"}
        left == IF inFlight = {} \/ plan.method # "GET" THEN <<>>
                ELSE calls[CHOOSE d \in inFlight : TRUE].req.query
        shared == [k \in DOMAIN left \cup DOMAIN plan.payload |->
                      IF k \in DOMAIN plan.payload THEN plan.payload[k] ELSE left[k]]
        b == IF plan.method = "GET"
             THEN getRequestSend(g, plan.endpoint, shared)
             ELSE postRequestSend(g, plan.endpoint, plan.payload)
        early == IF plan.err.kind # "nil" THEN plan.err ELSE b.err
    IN  /\ calls[c].pc = "idle"
        /\ calls' = [calls EXCEPT ![c] =
              IF early.kind # "nil"
              THEN [Idle EXCEPT !.pc = "returned", !.op = op, !.args = args,
                                !.shape = plan.shape, !.err = early]
              ELSE [Idle EXCEPT !.pc = "waiting", !.op = op, !.args = args,
                                !.shape = plan.shape, !.sent = 1, !.req = b.req,
                                !.payload = b.payload]]
        /\ UNCHANGED <<g, ctor, pin, pout>>

\* A caller enters method op with arguments args; plan is what the method
\* computes before the executor.  The step ends when the method returns
\* without a request or when the executor has sent the request (client.Do).
Invoke(c, op, args, plan) ==
    LET b == IF plan.method = "GET"
             THEN getRequestSend(g, plan.endpoint, plan.payload)
             ELSE postRequestSend(g, plan.endpoint, plan.payload)
        early == IF plan.err.kind # "nil" THEN plan.err ELSE b.err
    IN  /\ calls[c].pc = "idle"
        /\ calls' = [calls EXCEPT ![c] =
              IF early.kind # "nil"
              THEN [Idle EXCEPT !.pc = "returned", !.op = op, !.args = args,
                                !.shape = plan.shape, !.err = early]
              ELSE [Idle EXCEPT !.pc = "waiting", !.op = op, !.args = args,
                                !.shape = plan.shape, !.sent = 1, !.req = b.req,
                                !.payload = b.payload]]
        /\ UNCHANGED <<g, ctor, pin, pout>>

CallLookup(c) ==
    \E ip \in StringInputs, params \in ParamInputs, lang \in LangInputs :
        Invoke(c, "Lookup", [ip |-> ip, lang |-> lang, params |-> params],
               Lookup(ip, params, lang))

CallThreats(c) ==
    \E ip \in StringInputs : Invoke(c, "Threats", [ip |-> ip], Threats(ip))

CallBulkLookup(c) ==
    \E ips \in IpsInputs, params \in ParamInputs, lang \in LangInputs :
        Invoke(c, "BulkLookup", [ips |-> ips, lang |-> lang, params |-> params],
               BulkLookup(ips, params, lang))

CallCountry(c) ==
    \E cc \in StringInputs, params \in ParamInputs, lang \in LangInputs :
        Invoke(c, "Country", [countryCode |-> cc, lang |-> lang, params |-> params],
               Country(cc, params, lang))

CallProfanity(c) ==
    \E text \in StringInputs : Invoke(c, "Profanity", [text |-> text], Profanity(text))

CallAsnLookup(c) ==
    \E asn \in StringInputs : Invoke(c, "AsnLookup", [asn |-> asn], AsnLookup(asn))

CallEmail(c) ==
    \E email \in StringInputs : Invoke(c, "Email", [email |-> email], Email(email))

CallPhone(c) ==
    \E phone \in StringInputs, cc \in StringInputs :
        Invoke(c, "Phone", [countryCode |-> cc, phone |-> phone], Phone(phone, cc))

CallIBAN(c) ==
    \E iban \in StringInputs : Invoke(c, "IBAN", [iban |-> iban], IBAN(iban))

CallPayment(c) ==
    \E data \in DataInputs : Invoke(c, "Payment", [data |-> data], Payment(data))


\* (variant) a failed client.Do is tried once more before the error goes out
DeliverRetry(c, resp) ==
    LET out == IF calls[c].req.method = "GET"
               THEN getRequestReceive(resp, calls[c].shape)
               ELSE postRequestReceive(resp, calls[c].shape)
    IN  /\ calls[c].pc = "waiting"
        /\ calls' = [calls EXCEPT ![c] =
              IF resp.kind = "failure" /\ calls[c].sent < 2
              THEN [@ EXCEPT !.sent = @ + 1]
              ELSE [@ EXCEPT !.pc = IF out.panic THEN "panicked" ELSE "returned",
                             !.resp = resp,
                             !.result = IF out.panic THEN Idle.result ELSE MethodReturn(out),
                             !.err = out.err]]
        /\ UNCHANGED <<g, ctor, pin, pout>>

\* client.Do returns and the executor and the method run to their end
Deliver(c, resp) ==
    LET out == IF calls[c].req.method = "GET"
               THEN getRequestReceive(resp, calls[c].shape)
               ELSE postRequestReceive(resp, calls[c].shape)
    IN  /\ calls[c].pc = "waiting"
        /\ calls' = [calls EXCEPT ![c] =
              [@ EXCEPT !.pc = IF out.panic THEN "panicked" ELSE "returned",
                        !.resp = resp,
                        !.result = IF out.panic THEN Idle.result ELSE MethodReturn(out),
                        !.err = out.err]]
        /\ UNCHANGED <<g, ctor, pin, pout>>

Respond(c) == \E resp \in Responses : Deliver(c, resp)

\* the caller takes the outcome (or recovers from the panic) and may call again
Finish(c) ==
    /\ calls[c].pc \in {"returned", "panicked"}
    /\ calls' = [calls EXCEPT ![c] = Idle]
    /\ UNCHANGED <<g, ctor, pin, pout>>

\* the caller overrides the exported BaseURL field between calls
SetBaseURL ==
    /\ \A c \in Callers : calls[c].pc = "idle"
    /\ \E u \in BaseURLs : g' = [g EXCEPT !.BaseURL = u]
    /\ UNCHANGED <<ctor, calls, pin, pout>>

Next ==
    \/ \E c \in MainCallers : CallLookup(c)
    \/ \E c \in MainCallers : CallThreats(c)
    \/ \E c \in MainCallers : CallBulkLookup(c)
    \/ \E c \in MainCallers : CallCountry(c)
    \/ \E c \in MainCallers : CallProfanity(c)
    \/ \E c \in MainCallers : CallAsnLookup(c)
    \/ \E c \in MainCallers : CallEmail(c)
    \/ \E c \in MainCallers : CallPhone(c)
    \/ \E c \in MainCallers : CallIBAN(c)
    \/ \E c \in MainCallers : CallPayment(c)
    \/ \E c \in MainCallers : Respond(c)
    \/ \E c \in MainCallers : Finish(c)
    \/ SetBaseURL

Spec == Init /\ [][Next]_vars


\* ------------------------------------------- two callers sharing one handle
\* Both callers run endpoint methods on the same *Greip at once, each with
\* its own arguments; the steps of the two calls interleave at client.Do.
ConcIp == [c \in Callers |-> IF c = "c1" THEN "1.1.1.1" ELSE "8.8.8.8"]
ConcAmount == [c \in Callers |-> IF c = "c1" THEN "10" ELSE "20"]
ConcParams == {NilSlice, Slice(<<"location">>)}
ConcLangs == {<<>>, << <<"F","r">>, <<"x","x">> >>}
ConcEnvelopes ==
    {[data |-> JObj([ip |-> JStr("1.1.1.1"), ipType |-> JStr("v4")]),
      description |-> Absent, status |-> JStr(<<"s","u","c","c","e","s","s">>)],
     [data |-> Absent, description |-> JStr("bad token"),
      status |-> JStr(<<"e","r","r","o","r">>)],
     [data |-> Absent, description |-> Absent,
      status |-> JStr(<<"e","r","r","o","r">>)]}
ConcResponses ==
    {[StatusCode |-> 0,
      body |-> [kind |-> "garbage", val |-> EmptyEnvelope],
      kind |-> "failure"],
     [StatusCode |-> 500,
      body |-> [kind |-> "garbage", val |-> EmptyEnvelope],
      kind |-> "http"]}
    \cup {[StatusCode |-> 200, body |-> [kind |-> "object", val |-> e],
           kind |-> "http"] : e \in ConcEnvelopes}

ConcLookup(c) ==
    \E params \in ConcParams, lang \in ConcLangs :
        Invoke(c, "Lookup", [ip |-> ConcIp[c], lang |-> lang, params |-> params],
               Lookup(ConcIp[c], params, lang))

ConcThreats(c) == Invoke(c, "Threats", [ip |-> ConcIp[c]], Threats(ConcIp[c]))

ConcPayment(c) ==
    LET data == Map([amount |-> ConcAmount[c]])
    IN  Invoke(c, "Payment", [data |-> data], Payment(data))

ConcRespond(c) == \E resp \in ConcResponses : Deliver(c, resp)

NextConcurrent ==
    \/ \E c \in Callers : ConcLookup(c)
    \/ \E c \in Callers : ConcThreats(c)
    \/ \E c \in Callers : ConcPayment(c)
    \/ \E c \in Callers : ConcRespond(c)
    \/ \E c \in Callers : Finish(c)
    \/ SetBaseURL

SpecConcurrent == Init /\ [][NextConcurrent]_vars

TypeOK ==
    /\ g.test \in BOOLEAN
    /\ \A c \in Callers : calls[c].pc \in {"idle", "waiting", "returned", "panicked"}

\* ------------------------------------------- the validators on their own
\* Inputs of the two validators drawn from bounded sets; one step applies
\* the validator to the input.
RECURSIVE SeqsUpTo(_, _)
SeqsUpTo(S, n) ==
    IF n = 0 THEN {<<>>}
    ELSE LET shorter == SeqsUpTo(S, n - 1)
         IN  shorter \cup {Append(q, x) : q \in shorter, x \in S}

ParamUniverse == {"location", "security", "timezone", "currency", "device",
                  "language", "flag", "Location", "bogus", ""}
LangChars     == {"E", "e", "N", "n", "S", "s", "LONG_S", "I", "i", "T", "t", "1"}

ValidateParamsInputs ==
    [availableParams : {availableGeoIPParams, availableCountryParams},
     f : {"validateParams"},
     params : {NilSlice} \cup {Slice(q) : q \in SeqsUpTo(ParamUniverse, MaxParams)}]

ValidateLangInputs ==
    [f : {"validateLang"}, lang : SeqsUpTo(LangChars, MaxLangLen)]

InitValidators ==
    /\ ctor = [apiToken |-> "tok", test |-> <<>>]
    /\ g = NewGreip("tok", <<>>)
    /\ calls = [c \in Callers |-> Idle]
    /\ pin \in ValidateParamsInputs \cup ValidateLangInputs
    /\ pout = NoOutput

ApplyValidateParams ==
    /\ pin.f = "validateParams"
    /\ ~pout.done
    /\ pout' = [done |-> TRUE, err |-> validateParams(pin.params, pin.availableParams)]
    /\ UNCHANGED <<g, ctor, calls, pin>>

ApplyValidateLang ==
    /\ pin.f = "validateLang"
    /\ ~pout.done
    /\ pout' = [done |-> TRUE, err |-> validateLang(pin.lang)]
    /\ UNCHANGED <<g, ctor, calls, pin>>

NextValidators == ApplyValidateParams \/ ApplyValidateLang

SpecValidators == InitValidators /\ [][NextValidators]_vars

\* ------------------------------- the validation of the methods on its own
\* Arguments of the four methods that run more than one check, drawn from
\* bounded sets; one step runs the method up to the point where it would
\* call the executor and keeps the error it returns, if any.
MethodLangs == {<<>>, << <<"F","r">> >>, << <<"I","T">> >>}
MethodParams == {NilSlice} \cup {Slice(q) : q \in SeqsUpTo(ParamUniverse, MaxParams)}

MethodInputs ==
    [f : {"Lookup"}, ip : StringInputs, lang : MethodLangs, params : MethodParams]
    \cup [f : {"BulkLookup"}, ips : {NilSlice, Slice(<<>>), Slice(<<"1.1.1.1">>)},
          lang : MethodLangs, params : MethodParams]
    \cup [countryCode : StringInputs, f : {"Country"}, lang : MethodLangs,
          params : MethodParams]
    \cup [countryCode : StringInputs, f : {"Phone"}, phone : StringInputs]

InitMethods ==
    /\ ctor = [apiToken |-> "tok", test |-> <<>>]
    /\ g = NewGreip("tok", <<>>)
    /\ calls = [c \in Callers |-> Idle]
    /\ pin \in MethodInputs
    /\ pout = NoOutput

ApplyLookup ==
    /\ pin.f = "Lookup"
    /\ ~pout.done
    /\ pout' = [done |-> TRUE, err |-> Lookup(pin.ip, pin.params, pin.lang).err]
    /\ UNCHANGED <<g, ctor, calls, pin>>

ApplyBulkLookup ==
    /\ pin.f = "BulkLookup"
    /\ ~pout.done
    /\ pout' = [done |-> TRUE, err |-> BulkLookup(pin.ips, pin.params, pin.lang).err]
    /\ UNCHANGED <<g, ctor, calls, pin>>

ApplyCountry ==
    /\ pin.f = "Country"
    /\ ~pout.done
    /\ pout' = [done |-> TRUE,
                err |-> Country(pin.countryCode, pin.params, pin.lang).err]
    /\ UNCHANGED <<g, ctor, calls, pin>>

ApplyPhone ==
    /\ pin.f = "Phone"
    /\ ~pout.done
    /\ pout' = [done |-> TRUE, err |-> Phone(pin.phone, pin.countryCode).err]
    /\ UNCHANGED <<g, ctor, calls, pin>>

NextMethods == ApplyLookup \/ ApplyBulkLookup \/ ApplyCountry \/ ApplyPhone

SpecMethods == InitMethods /\ [][NextMethods]_vars

\* ================================================================= claims
Started(c) == calls[c].pc # "idle"
Answered(c) == calls[c].resp.kind = "http"
Is2xx(c) == Answered(c) /\ calls[c].resp.StatusCode >= 200 /\ calls[c].resp.StatusCode < 300
HasEnvelope(c) == Is2xx(c) /\ calls[c].resp.body.kind = "object"
EnvelopeOf(c) == calls[c].resp.body.val
HasErrorStatus(c) ==
    /\ HasEnvelope(c)
    /\ EnvelopeOf(c).status.kind = "string"
    /\ ToUpper(EnvelopeOf(c).status.val) = <<"E","R","R","O","R">>

\* C1: a call that ends with a validation error (missing parameter, invalid
\* parameter, invalid language) has issued no HTTP request, and a call that
\* has issued a request never carries a validation error.
C1_ValidationBeforeSend ==
    \A c \in Callers :
        /\ IsValidationError(calls[c].err) =>
              calls[c].sent = 0 /\ calls[c].req = NoRequest /\ calls[c].resp = NoResponse
        /\ calls[c].sent > 0 => ~IsValidationError(calls[c].err)

C1_Witness ==
    \E c \in Callers :
        /\ calls[c].pc = "returned" /\ calls[c].op = "Phone"
        /\ calls[c].err = MissingParameter("countryCode")
        /\ calls[c].sent = 0

\* C2: the required string inputs of each method, in the order the method
\* checks them; a call fails with the missing-parameter error naming the
\* first empty one, and with no missing-parameter error if none is empty.
RequiredStrings ==
    [AsnLookup |-> <<"asn">>, Country |-> <<"countryCode">>, Email |-> <<"email">>,
     IBAN |-> <<"iban">>, Lookup |-> <<"ip">>, Phone |-> <<"phone", "countryCode">>,
     Profanity |-> <<"text">>, Threats |-> <<"ip">>]

C2_MissingRequiredString ==
    \A c \in Callers :
        (Started(c) /\ calls[c].op \in DOMAIN RequiredStrings) =>
            LET r == RequiredStrings[calls[c].op]
                a == calls[c].args
                empty == {i \in 1..Len(r) : a[r[i]] = ""}
            IN  IF empty # {}
                THEN /\ calls[c].pc = "returned"
                     /\ calls[c].err.kind = "MissingParameter"
                     /\ \E i \in empty : /\ calls[c].err.val = r[i]
                                          /\ \A j \in empty : i <= j
                ELSE calls[c].err.kind # "MissingParameter"

C2_Witness ==
    \E c \in Callers :
        /\ calls[c].op = "Phone"
        /\ calls[c].args.phone # "" /\ calls[c].args.countryCode = ""
        /\ calls[c].err = MissingParameter("countryCode")

\* C3: Payment with a nil or empty data map, and BulkLookup with a nil or
\* empty ips list, fail with the missing-parameter error naming data / ips
\* and issue no HTTP request.
C3_EmptyCollectionRejected ==
    \A c \in Callers :
        /\ (Started(c) /\ calls[c].op = "Payment"
               /\ (calls[c].args.data.nil \/ DOMAIN calls[c].args.data.elems = {}))
             => (calls[c].err = MissingParameter("data") /\ calls[c].sent = 0)
        /\ (Started(c) /\ calls[c].op = "BulkLookup"
               /\ (calls[c].args.ips.nil \/ Len(calls[c].args.ips.elems) = 0))
             => (calls[c].err = MissingParameter("ips") /\ calls[c].sent = 0)

\* C4: validateParams returns no error exactly when every requested element
\* is in the allowed list (exact, case-sensitive match); otherwise it returns
\* the invalid-parameter error naming the first requested element, in list
\* order, that is not allowed.
C4_ValidateParams ==
    (pout.done /\ pin.f = "validateParams") =>
        LET req     == pin.params.elems
            allowed == {pin.availableParams[i] : i \in 1..Len(pin.availableParams)}
            foreign == {i \in 1..Len(req) : req[i] \notin allowed}
        IN  /\ (pout.err = NoError) <=> (foreign = {})
            /\ foreign # {} =>
                  /\ pout.err.kind = "InvalidParameter"
                  /\ \E i \in foreign : /\ pout.err.val = req[i]
                                         /\ \A j \in foreign : i <= j

C4_Witness ==
    /\ pout.done /\ pin.f = "validateParams"
    /\ pin.params.elems = <<"Location", "flag">>
    /\ pin.availableParams = availableGeoIPParams
    /\ pout.err = InvalidParameter("Location")

\* C5: validateLang succeeds exactly when the upper-cased code is one of
\* EN, AR, DE, FR, ES, JA, ZH, RU; every letter-case variant of one of these
\* succeeds, and every other string, the empty one included, fails with the
\* invalid-language error carrying the code as given.
AllowedLangTable ==
    { <<"E","N">>, <<"A","R">>, <<"D","E">>, <<"F","R">>,
      <<"E","S">>, <<"J","A">>, <<"Z","H">>, <<"R","U">> }

IsCaseVariant(lang, code) ==
    /\ Len(lang) = Len(code)
    /\ \A i \in 1..Len(code) : lang[i] \in {code[i], LowerChar(code[i])}

DocumentedLangs ==
    { <<"E","N">>, <<"E","S">>, <<"F","R">>, <<"D","E">>,
      <<"I","T">>, <<"P","T">>, <<"R","U">> }

OtherwiseValid(c) ==
    LET a == calls[c].args
        allowed == IF calls[c].op = "Country"
                   THEN {"language", "flag", "currency", "timezone"}
                   ELSE {"location", "security", "timezone", "currency", "device"}
    IN  /\ calls[c].op \in {"Lookup", "BulkLookup", "Country"}
        /\ calls[c].op = "Lookup" => a.ip # ""
        /\ calls[c].op = "Country" => a.countryCode # ""
        /\ calls[c].op = "BulkLookup" => (~a.ips.nil /\ Len(a.ips.elems) > 0)
        /\ \A i \in 1..Len(a.params.elems) : a.params.elems[i] \in allowed

C6_DocumentedLangsAccepted ==
    \A c \in Callers :
        (Started(c) /\ OtherwiseValid(c) /\ Len(calls[c].args.lang) > 0
           /\ calls[c].args.lang[1] \in DocumentedLangs)
        => ~IsValidationError(calls[c].err)

\* C7: a 2xx response whose envelope has a string status equal to "error" in
\* any letter case and a string description makes the GET and the POST
\* executor return the API error carrying that description unchanged and no
\* result, whether or not the envelope has a data field.
C7_ErrorStatus ==
    \A c \in Callers :
        (HasErrorStatus(c) /\ EnvelopeOf(c).description.kind = "string") =>
            /\ calls[c].pc = "returned"
            /\ calls[c].err = APIError(EnvelopeOf(c).description.val)
            /\ calls[c].result.nil

C7_Witness ==
    \E c \in Callers :
        /\ calls[c].req.method = "GET"
        /\ HasEnvelope(c)
        /\ EnvelopeOf(c).status = JStr(<<"E","R","R","O","R">>)
        /\ EnvelopeOf(c).data.kind = "object"
        /\ calls[c].err = APIError("bad token")

\* C8: a 2xx response whose envelope has error status and no string
\* description makes the call return an error value; it does not panic.
C8_NoPanicOnMissingDescription ==
    \A c \in Callers :
        (HasErrorStatus(c) /\ EnvelopeOf(c).description.kind # "string") =>
            /\ calls[c].pc = "returned"
            /\ calls[c].err.kind # "nil"

\* C9: a 2xx response whose envelope has no error status and no data field
\* makes both executors return the missing-data-field error and no result.
C9_MissingData ==
    \A c \in Callers :
        (HasEnvelope(c) /\ ~HasErrorStatus(c) /\ EnvelopeOf(c).data.kind = "absent") =>
            /\ calls[c].pc = "returned"
            /\ calls[c].err = MissingDataField
            /\ calls[c].result.nil

C9_Witness ==
    \E c \in Callers :
        /\ calls[c].req.method = "POST"
        /\ HasEnvelope(c)
        /\ EnvelopeOf(c).status = JStr(<<"s","u","c","c","e","s","s">>)
        /\ EnvelopeOf(c).data.kind = "absent"
        /\ calls[c].err = MissingDataField

\* C10: a response with a status code outside [200, 300) makes the call
\* return the HTTP status error carrying that code and no result, for GET
\* and POST and for every body.
C10_Non2xx ==
    \A c \in Callers :
        (Answered(c) /\ ~Is2xx(c)) =>
            /\ calls[c].pc = "returned"
            /\ calls[c].err = HTTPStatusError(calls[c].resp.StatusCode)
            /\ calls[c].result.nil

C10_Witness ==
    \E c \in Callers :
        /\ calls[c].req.method = "GET"
        /\ Answered(c) /\ calls[c].resp.StatusCode = 500
        /\ calls[c].resp.body.kind = "garbage"
        /\ calls[c].err = HTTPStatusError(500)

\* ---------------------------------------------------------------- C11..C20
\* the test mode the handle was constructed with: NewGreip(token) and
\* NewGreip(token, false) give none, NewGreip(token, true) gives test mode
ConstructedTest == Len(ctor.test) > 0 /\ ctor.test[1]

Sent(c) == calls[c].sent > 0

\* the key/value map in which a request carries its top-level parameters
TopLevel(c) ==
    IF calls[c].req.method = "GET" THEN calls[c].req.query ELSE calls[c].req.body.val

\* C11: a request carries the test-mode marker exactly when the handle was
\* constructed with test mode true: then every GET has mode=test in its
\* query and every POST has "mode":"test" at the top level of its body;
\* otherwise no request has a mode key at all.
C11_TestModeMarker ==
    \A c \in Callers :
        Sent(c) =>
            IF ConstructedTest
            THEN "mode" \in DOMAIN TopLevel(c) /\ TopLevel(c)["mode"] = "test"
            ELSE "mode" \notin DOMAIN TopLevel(c)

C11_Witness ==
    \E c \in Callers :
        /\ ConstructedTest
        /\ Sent(c) /\ calls[c].req.method = "GET"
        /\ calls[c].req.query["mode"] = "test"

Ended(c) == calls[c].pc \in {"returned", "panicked"}

\* the two outcomes of a method: (non-nil result, nil error) and then only
\* after a 2xx non-error envelope with a data field, or (nil result, error)
OneOutcome(c) ==
    \/ /\ ~calls[c].result.nil /\ calls[c].err = NoError
       /\ HasEnvelope(c) /\ ~HasErrorStatus(c)
       /\ EnvelopeOf(c).data.kind # "absent"
    \/ /\ calls[c].result.nil /\ calls[c].err # NoError

\* C12: every call of an endpoint method ends by returning exactly one of
\* the two outcomes: a non-nil result with a nil error after a 2xx non-error
\* envelope whose data decoded, or a nil result with a non-nil error in
\* every other case.
C12_ExactlyOneOutcome ==
    \A c \in Callers :
        Ended(c) => calls[c].pc = "returned" /\ OneOutcome(c)

\* The same for the calls that do return: no partly filled result goes out
\* with an error and no error goes out with a result.
ReturnedOutcome ==
    \A c \in Callers : calls[c].pc = "returned" => OneOutcome(c)

\* a 2xx envelope without error status whose data is a JSON object
DataObject(c) ==
    /\ HasEnvelope(c) /\ ~HasErrorStatus(c)
    /\ EnvelopeOf(c).data.kind = "object"

\* every field of the struct that object o has carries a value of its type
WellTyped(o, fields) ==
    \A f \in DOMAIN fields \cap DOMAIN o : o[f].kind = fields[f]

\* struct value v holds, for every field that o has, the value o gives it
FieldsHold(v, o, fields) ==
    \A f \in DOMAIN fields \cap DOMAIN o : v[f] = o[f].val

\* data fits the call's target: for a struct its own fields, for the map of
\* BulkLookup every entry is an object whose fields fit
DataFits(c) ==
    LET d == EnvelopeOf(c).data.val
        fields == calls[c].shape.fields
    IN  IF calls[c].shape.kind = "struct"
        THEN WellTyped(d, fields)
        ELSE \A k \in DOMAIN d : d[k].kind = "object" /\ WellTyped(d[k].val, fields)

\* the call returned no error and a result holding the values of data
ResultHolds(c) ==
    LET d == EnvelopeOf(c).data.val
        fields == calls[c].shape.fields
    IN  /\ calls[c].pc = "returned"
        /\ calls[c].err = NoError
        /\ ~calls[c].result.nil
        /\ IF calls[c].shape.kind = "struct"
           THEN FieldsHold(calls[c].result.val, d, fields)
           ELSE /\ DOMAIN calls[c].result.val = DOMAIN d
                /\ \A k \in DOMAIN d :
                      d[k].kind = "object" =>
                          FieldsHold(calls[c].result.val[k], d[k].val, fields)

HandleAsConstructed ==
    /\ g.token = ctor.apiToken
    /\ g.test = ConstructedTest

\* the parameters the call's own arguments give its request
OwnParameters(c) ==
    LET a == calls[c].args
    IN  IF calls[c].op = "Lookup"
        THEN [ip |-> a.ip,
              lang |-> IF Len(a.lang) = 0 THEN <<"E","N">> ELSE ToUpper(a.lang[1]),
              params |-> Join(a.params.elems, ",")]
        ELSE IF calls[c].op = "Threats" THEN [ip |-> a.ip]
        ELSE [data |-> JObj(a.data.elems)]

\* the request carries the call's own parameters and, besides the test-mode
\* marker, nothing else
CarriesOwn(c) ==
    /\ DOMAIN TopLevel(c) \ {"mode"} = DOMAIN OwnParameters(c)
    /\ \A k \in DOMAIN OwnParameters(c) : TopLevel(c)[k] = OwnParameters(c)[k]

\* C14: with two callers running calls on one handle at once, no step of a
\* call changes the handle (token and test flag stay as constructed, the
\* base URL changes only when the caller reassigns it between calls), and
\* every request carries exactly the parameters of its own call, never one
\* of the other call in flight.
C14_HandleUnchangedPayloadPrivate ==
    /\ [](HandleAsConstructed /\ \A c \in Callers : Sent(c) => CarriesOwn(c))
    /\ [][g' # g => /\ calls' = calls
                    /\ \A c \in Callers : calls[c].pc = "idle"]_vars

C14_Witness ==
    /\ calls["c1"].pc = "waiting" /\ calls["c1"].op = "Lookup"
    /\ calls["c2"].pc = "waiting" /\ calls["c2"].op = "Threats"
    /\ calls["c1"].req.query["ip"] = "1.1.1.1"
    /\ calls["c2"].req.query["ip"] = "8.8.8.8"
    /\ g.BaseURL # baseUrl

\* the answer to the request was a failure of one of the four kinds
FailedAnswer(c) ==
    \/ calls[c].resp.kind = "failure"
    \/ Answered(c) /\ ~Is2xx(c)
    \/ Is2xx(c) /\ calls[c].resp.body.kind = "garbage"
    \/ HasErrorStatus(c)

\* C15: a call issues at most one HTTP request: once client.Do has come
\* back, with a transport failure, a non-2xx status, an API error, a body
\* that does not decode or a good answer, the call is over with that single
\* request sent, and a failure that is returned is returned as an error.
C15_AtMostOneRequest ==
    \A c \in Callers :
        /\ calls[c].sent <= 1
        /\ calls[c].resp # NoResponse => Ended(c) /\ calls[c].sent = 1
        /\ (FailedAnswer(c) /\ calls[c].pc = "returned") =>
               calls[c].err # NoError /\ calls[c].result.nil

C15_Witness ==
    \E c \in Callers :
        /\ calls[c].resp.kind = "failure"
        /\ calls[c].pc = "returned"
        /\ calls[c].err = TransportError
        /\ calls[c].sent = 1

\* C16: every request sent carries the header Authorization with the value
\* "Bearer " followed by exactly the token NewGreip was given, and the
\* header Content-Type with the value application/json, for GET and POST.
C16_AuthHeaders ==
    \A c \in Callers :
        Sent(c) =>
            /\ {"Authorization", "Content-Type"} \subseteq DOMAIN calls[c].req.header
            /\ calls[c].req.header["Authorization"] = "Bearer " \o ctor.apiToken
            /\ calls[c].req.header["Content-Type"] = "application/json"

C16_Witness ==
    \E c \in Callers :
        /\ Sent(c) /\ calls[c].req.method = "POST"
        /\ ctor.apiToken = "tok2"
        /\ calls[c].req.header["Authorization"] = "Bearer tok2"

\* the two allow-lists as the claims give them
GeoIPList == {"location", "security", "timezone", "currency", "device"}
CountryList == {"language", "flag", "currency", "timezone"}

OwnList(f) == IF f = "Country" THEN CountryList ELSE GeoIPList

\* the required argument of the method is there
RequiredGiven ==
    IF pin.f = "Lookup" THEN pin.ip # ""
    ELSE IF pin.f = "BulkLookup" THEN ~pin.ips.nil
    ELSE IF pin.f = "Country" THEN pin.countryCode # ""
    ELSE pin.phone # "" /\ pin.countryCode # ""

OutsideList == {i \in 1..Len(pin.params.elems) : pin.params.elems[i] \notin OwnList(pin.f)}

\* C17: Lookup and BulkLookup accept exactly the params that are subsets of
\* {location, security, timezone, currency, device}, Country exactly the
\* subsets of {language, flag, currency, timezone}: with the required
\* argument given, the call is rejected with the invalid-parameter error
\* exactly when some element of params is outside the method's own list.
C17_OwnAllowList ==
    (pout.done /\ pin.f \in {"Lookup", "BulkLookup", "Country"} /\ RequiredGiven) =>
        (pout.err.kind = "InvalidParameter" <=> OutsideList # {})

C17_Witness ==
    /\ pout.done /\ pin.f = "Country" /\ pin.countryCode = "x"
    /\ pin.params = Slice(<<"flag", "device">>)
    /\ pout.err = InvalidParameter("device")

LangGiven == IF Len(pin.lang) > 0 THEN pin.lang[1] ELSE <<"E","N">>

\* the error of the first check that fails, in the order required argument,
\* params, language (Phone: phone, countryCode)
FirstFailure ==
    IF pin.f = "Phone"
    THEN IF pin.phone = "" THEN MissingParameter("phone")
         ELSE IF pin.countryCode = "" THEN MissingParameter("countryCode")
         ELSE NoError
    ELSE IF ~RequiredGiven
         THEN MissingParameter(IF pin.f = "Lookup" THEN "ip"
                               ELSE IF pin.f = "BulkLookup" THEN "ips"
                               ELSE "countryCode")
    ELSE IF OutsideList # {}
         THEN InvalidParameter(pin.params.elems[
                  CHOOSE i \in OutsideList : \A j \in OutsideList : i <= j])
    ELSE IF ToUpper(LangGiven) \notin AllowedLangTable
         THEN InvalidLanguage(LangGiven)
    ELSE NoError

\* C20: the checks run in a fixed order and the first failure is the one
\* error reported: missing required argument, then params, then language
\* for Lookup, BulkLookup and Country; empty phone before empty countryCode
\* for Phone.
C20_CheckOrder ==
    pout.done => pout.err = FirstFailure

C20_Witness ==
    /\ pout.done /\ pin.f = "Lookup" /\ pin.ip = "x"
    /\ pin.params = Slice(<<"flag">>)
    /\ pin.lang = << <<"I","T">> >>
    /\ pout.err = InvalidParameter("flag")

\* C18: the lang query parameter of a request of Lookup, BulkLookup or
\* Country is "EN" when no lang argument was given and otherwise the first
\* lang argument in upper case; further lang arguments have no effect.
C18_LangParameter ==
    \A c \in Callers :
        (Sent(c) /\ calls[c].op \in {"Lookup", "BulkLookup", "Country"}) =>
            /\ "lang" \in DOMAIN calls[c].req.query
            /\ calls[c].req.query["lang"] =
                  IF Len(calls[c].args.lang) = 0 THEN <<"E","N">>
                  ELSE ToUpper(calls[c].args.lang[1])

C18_Witness ==
    \E c \in Callers :
        /\ Sent(c) /\ calls[c].op = "BulkLookup"
        /\ calls[c].args.lang = << <<"F","r">>, <<"x","x">> >>
        /\ calls[c].req.query["lang"] = <<"F","R">>

\* the path segment and the payload keys of each method, as the claim lists them
Segment ==
    [AsnLookup |-> "ASNLookup", BulkLookup |-> "BulkLookup", Country |-> "Country",
     Email |-> "validateEmail", IBAN |-> "validateIBAN", Lookup |-> "IPLookup",
     Payment |-> "paymentFraud", Phone |-> "validatePhone",
     Profanity |-> "badWords", Threats |-> "threats"]

PayloadKeys ==
    [AsnLookup |-> {"asn"}, BulkLookup |-> {"ips", "params", "lang"},
     Country |-> {"CountryCode", "params", "lang"}, Email |-> {"email"},
     IBAN |-> {"iban"}, Lookup |-> {"ip", "params", "lang"},
     Payment |-> {"data"}, Phone |-> {"phone", "countryCode"},
     Profanity |-> {"text"}, Threats |-> {"ip"}]

\* C19: Payment is the only method sending POST, to base URL + paymentFraud
\* with the payload as JSON body and an empty query; the other nine send
\* GET with an empty body to base URL + their own segment, with every key
\* of the payload in the query.
C19_MethodAndPath ==
    \A c \in Callers :
        Sent(c) =>
            /\ calls[c].req.url = g.BaseURL \o Segment[calls[c].op]
            /\ DOMAIN TopLevel(c) \ {"mode"} = PayloadKeys[calls[c].op]
            /\ IF calls[c].op = "Payment"
               THEN /\ calls[c].req.method = "POST"
                    /\ calls[c].req.query = <<>>
                    /\ calls[c].req.body.kind = "object"
                    /\ calls[c].req.body.val["data"] = JObj(calls[c].args.data.elems)
               ELSE /\ calls[c].req.method = "GET"
                    /\ calls[c].req.body = Absent

C19_Witness ==
    \E c \in Callers :
        /\ Sent(c) /\ calls[c].op = "Threats"
        /\ g.BaseURL = "http://127.0.0.1:8080/"
        /\ calls[c].req.method = "GET"
        /\ calls[c].req.url = "http://127.0.0.1:8080/threats"
        /\ DOMAIN calls[c].req.query = {"ip"}

\* ---------------------------------------------------------------- C21..C22
\* The map the caller passed to Payment as it is after the call: Payment
\* keeps a reference to it under the key data of its wrapper, so it is what
\* that key holds after the executor's writes; a call that built no request
\* has written nothing.
CallerMap(c) ==
    IF Sent(c) /\ "data" \in DOMAIN calls[c].payload
    THEN Map(calls[c].payload["data"].val)
    ELSE calls[c].args.data

\* C21: Payment never modifies the map the caller passed and the caller's
\* data cannot override the test-mode marker: after the call the caller's
\* map has the keys and values it had, the request body is a wrapper whose
\* key data holds the caller's map, "mode":"test" is at the top level of the
\* body exactly in test mode, and a mode key of the caller's map stays
\* under data.
C21_PaymentFrame ==
    \A c \in Callers :
        calls[c].op = "Payment" =>
            /\ CallerMap(c) = calls[c].args.data
            /\ Sent(c) =>
                  LET body == calls[c].req.body.val
                  IN  /\ DOMAIN body = IF ConstructedTest THEN {"data", "mode"}
                                       ELSE {"data"}
                      /\ body["data"] = JObj(calls[c].args.data.elems)
                      /\ ConstructedTest => body["mode"] = "test"

C21_Witness ==
    \E c \in Callers :
        /\ calls[c].op = "Payment" /\ Ended(c) /\ Sent(c)
        /\ ConstructedTest
        /\ calls[c].args.data = Map([mode |-> "live"])
        /\ calls[c].req.body.val["mode"] = "test"
        /\ calls[c].req.body.val["data"].val["mode"] = "live"

\* every field of the result has the zero value of its type; the result of
\* BulkLookup is the map without entries
AllZero(c) ==
    LET fields == calls[c].shape.fields
    IN  IF calls[c].shape.kind = "struct"
        THEN /\ DOMAIN calls[c].result.val = DOMAIN fields
             /\ \A f \in DOMAIN fields :
                   calls[c].result.val[f] = IF fields[f] = "string" THEN "" ELSE 0
        ELSE DOMAIN calls[c].result.val = {}

\* C22: the test for data is key presence: a 2xx envelope without error
\* status whose data key is there with the value null is a success, and the
\* call returns a nil error and a non-nil result with every field at its
\* zero value, not a missing-data or decode error.
C22_NullDataIsSuccess ==
    \A c \in Callers :
        (HasEnvelope(c) /\ ~HasErrorStatus(c) /\ EnvelopeOf(c).data.kind = "null") =>
            /\ calls[c].pc = "returned"
            /\ calls[c].err = NoError
            /\ ~calls[c].result.nil
            /\ AllZero(c)

C22_Witness ==
    \E c \in Callers :
        /\ calls[c].op = "Lookup"
        /\ HasEnvelope(c) /\ ~HasErrorStatus(c)
        /\ EnvelopeOf(c).data = JNull
        /\ calls[c].err = NoError
        /\ ~calls[c].result.nil
        /\ calls[c].result.val.ip = ""

====
